---- MODULE Spec2Model ----
(***************************************************************************)
(* Model of the scan pipeline of horuseye_vulnr: the post-processor        *)
(* registry (app/post_processing.py), the artifact-store adapter           *)
(* (app/gcs_utils.py), the process executor (ToolRunner.execute_command in *)
(* app/tool_runner.py) and the scan orchestrator (tasks.py).               *)
(*                                                                         *)
(* An output directory outputs/{scan_id}/{tool_name} is a record           *)
(*   exists : the directory is on disk                                     *)
(*   files  : the regular files directly inside it                         *)
(*   subdir : it holds at least one subdirectory                           *)
(*   log    : the first subdirectory found holds a file named "log"        *)
(* The outcomes of the environment (the object store, the disk, the child  *)
(* process, the status sink) are inputs of the actions, drawn with \E.     *)
(***************************************************************************)
EXTENDS Integers, Sequences, FiniteSets, TLC

VARIABLES
    fs,        \* tool name -> its output directory under outputs/{scan_id}/
    pp,        \* record of the post-processor invocation of the tool in hand
    ex,        \* record of the execute_command run of the tool in hand
    pc,        \* position of execute_scan_logic
    tools,     \* scan_request.tools: the tool requests, in order
    i,         \* index of the tool_req the loop of execute_scan_logic is at
    command,   \* the command the builder returned for the current tool
    results,   \* the list `results` of execute_scan_logic
    sink,      \* every call received by update_status_callback, in order, and
               \* under SpecMain the calls of update_scan_status among them
    events,    \* builder and executor invocations and sink calls, in order; where
               \* a call is repeated (SpecRepeat, BuildAgain), the first call
    report,    \* outputs/{scan_id}/final_results.json ("none" while absent)
    writes,    \* number of times final_results.json was written
    ret,       \* what execute_scan_logic gave its caller
    faults,    \* what failed so far in the scan: "sink" calls, artifact "upload"s
    polls      \* the answers get_results gave for the scan id, in order

vars == <<fs, pp, ex, pc, tools, i, command, results, sink, events, report, writes, ret,
          faults, polls>>

----------------------------------------------------------------------------
(* Bounds *)

MaxTools == 2        \* longest tool list of a scan request
UploadSlots == 3     \* upload attempts of one invocation that may fail
MaxParams == 2       \* longest parameter list of a tool request
MaxPolls == 2        \* requests for the results of one scan

----------------------------------------------------------------------------
(* Tool names and files *)

\* the names that carry a @register_post_processor decorator
RegisteredPostProcessors ==
    {"nuclei", "nikto", "sqlmap", "trivy", "lynis", "wpscan", "semgrep",
     "trufflehog", "gitleaks", "yara", "httpx"}

\* the names that carry a @ToolRunner.register_tool decorator
RegisteredBuilders ==
    {"nuclei", "nikto", "sqlmap", "trivy", "lynis", "wpscan", "semgrep",
     "trufflehog", "gitleaks", "yara", "httpx"}

\* "nmap" stands for every name no decorator registers
ToolNames == RegisteredBuilders \cup {"nmap"}

\* the builders that create the tool's output directory themselves
DirBuilders == {"nuclei", "nikto", "sqlmap", "trivy", "lynis", "wpscan", "httpx"}

\* the builders that clone a repository into output_dir/source first
CloneBuilders == {"semgrep", "trufflehog", "gitleaks", "yara"}

\* A ToolExecutionRequest: the tool's name, and whether its parameter list
\* carries the parameter the builder insists on (imageName for trivy, gitURL
\* for semgrep, repoURL for trufflehog, gitleaks and yara) with a usable value.
Request(name, req) == [name |-> name, req |-> req]

ToolRequests ==
    {Request(n, "ok") : n \in ToolNames}
    \cup {Request(n, "missing") : n \in CloneBuilders \cup {"trivy"}}

\* The requests a scan of the model is made of: a tool whose builder creates
\* the output directory and can raise, a tool whose builder clones, and a name
\* that is not registered.
ScanTools == {"trivy", "gitleaks", "nmap"}

ScanRequests == {r \in ToolRequests : r.name \in ScanTools}

stdout_file == "output.stdout"
stderr_file == "output.stderr"

\* the files, besides the two captured streams, that the command built for a
\* tool makes the tool write directly into its output directory
ToolFiles(tool) ==
    CASE tool = "nuclei"   -> {"nuclei_results.json"}
      [] tool = "nikto"    -> {"nikto_results.json"}
      [] tool = "trivy"    -> {"trivy_results.json"}
      [] tool = "wpscan"   -> {"wpscan_results.json"}
      [] tool = "semgrep"  -> {"semgrep_results.json"}
      [] tool = "gitleaks" -> {"gitleaks_results.json"}
      [] tool = "lynis"    -> {"lynis.log"}
      [] OTHER             -> {}

\* a fixed enumeration order of the file names (os.listdir gives some order)
AllFiles ==
    <<"output.stdout", "output.stderr", "nuclei_results.json", "nikto_results.json",
      "trivy_results.json", "wpscan_results.json", "semgrep_results.json",
      "gitleaks_results.json", "lynis.log", "compiled_llm_input.txt",
      "httpx_summary.txt">>

Listing(S) == SelectSeq(AllFiles, LAMBDA f : f \in S)

compiled_llm_file == "compiled_llm_input.txt"
summary_file == "httpx_summary.txt"
log_file == "log"

NoDir == [exists |-> FALSE, files |-> {}, subdir |-> FALSE, log |-> FALSE]

\* os.path.exists of a path below the output directory
PathExists(dir, file) ==
    IF file = log_file THEN dir.exists /\ dir.subdir /\ dir.log
    ELSE dir.exists /\ file \in dir.files

----------------------------------------------------------------------------
(* app/gcs_utils.py *)

\* upload_file_to_gcs: True when the blob was uploaded, False on every
\* failure (no client, no bucket name, any exception of the upload, which
\* includes a local file that is not there). `k` is the position of the
\* attempt within the invocation and `bad` the attempts the store refuses.
upload_file_to_gcs(dir, file, k, bad) ==
    PathExists(dir, file) /\ k \notin bad

\* a variant that removes the directory with os.rmdir, which fails on a
\* directory that is not empty
delete_with_rmdir(dir, rm) ==
    IF ~dir.exists THEN dir
    ELSE IF rm /\ dir.files = {} /\ ~dir.subdir THEN NoDir
    ELSE dir

\* delete_local_directory: nothing when the path is no directory; otherwise
\* shutil.rmtree, whose exception is logged and swallowed (rm = FALSE: the
\* tree is left as it was).
delete_local_directory(dir, rm) ==
    IF ~dir.exists THEN dir
    ELSE IF rm THEN NoDir
    ELSE dir

----------------------------------------------------------------------------
(* app/post_processing.py *)

\* One entry per upload a processor reaches: att = TRUE when
\* upload_file_to_gcs is called, att = FALSE when the processor records
\* False for an absent file without calling it.
Entry(file, dest, att) == [file |-> file, dest |-> dest, att |-> att]

\* number of upload calls among the first k entries of a plan
AttemptIndex(plan, k) == Cardinality({j \in 1..k : plan[j].att})

\* the booleans the processor collects, entry by entry
RunUploads(plan, dir, bad) ==
    [k \in 1..Len(plan) |->
        [file |-> plan[k].file, dest |-> plan[k].dest, att |-> plan[k].att,
         ok |-> plan[k].att
                /\ upload_file_to_gcs(dir, plan[k].file, AttemptIndex(plan, k), bad)]]

\* all(uploads_succeeded)
AllSucceeded(ups) == \A k \in 1..Len(ups) : ups[k].ok

\* what one invocation did: the uploads, the directory afterwards, and
\* whether it ended in an exception
Outcome(ups, dir, raised) == [ups |-> ups, dir |-> dir, raised |-> raised]

\* a variant that cleans up as soon as one collected boolean is true
CleanupIfAny(ups, dir, rm) ==
    Outcome(ups, IF \E k \in 1..Len(ups) : ups[k].ok
                 THEN delete_local_directory(dir, rm) ELSE dir, FALSE)

\* the recurring tail: delete the directory when every collected boolean is true
CleanupIfAll(ups, dir, rm) ==
    Outcome(ups, IF AllSucceeded(ups) THEN delete_local_directory(dir, rm) ELSE dir, FALSE)

\* The inputs of one invocation that the environment decides:
\*   bad  : the upload attempts (by position) the object store refuses
\*   rm   : shutil.rmtree succeeds
\*   io   : a file the processor creates locally can be written
\*   long : output.stdout holds at least 20 lines
Envs == [bad : SUBSET (1..UploadSlots), rm : BOOLEAN, io : BOOLEAN, long : BOOLEAN]

\* an upload of `file` when it exists, and the boolean False in its place otherwise
UploadOrFalse(dir, file, dest) ==
    IF PathExists(dir, file) THEN <<Entry(file, dest, TRUE)>>
    ELSE <<Entry(file, dest, FALSE)>>

\* an upload of `file` when it exists, and nothing otherwise
UploadIfExists(dir, file, dest) ==
    IF PathExists(dir, file) THEN <<Entry(file, dest, TRUE)>> ELSE <<>>

\* two uploads of `file` (LLM path, review path) when it exists, one False otherwise
UploadBothOrFalse(dir, file) ==
    IF PathExists(dir, file)
    THEN <<Entry(file, "llm", TRUE), Entry(file, "review", TRUE)>>
    ELSE <<Entry(file, "llm", FALSE)>>

\* a variant that uploads every candidate without looking whether it exists
default_post_processor_unguarded(dir, output_files, env) ==
    LET plan == [k \in 1..Len(output_files) |-> Entry(output_files[k], "review", TRUE)]
    IN  CleanupIfAll(RunUploads(plan, dir, env.bad), dir, env.rm)

default_post_processor(dir, output_files, env) ==
    LET existing == SelectSeq(output_files, LAMBDA f : PathExists(dir, f))
        plan == [k \in 1..Len(existing) |-> Entry(existing[k], "review", TRUE)]
    IN  CleanupIfAll(RunUploads(plan, dir, env.bad), dir, env.rm)

post_process_nuclei(dir, output_files, env) ==
    IF ~dir.exists \/ ~env.io
    THEN Outcome(<<>>, dir, TRUE)     \* open(compiled_llm_file, 'w') raises
    ELSE LET written == [dir EXCEPT !.files = @ \cup {compiled_llm_file}]
             plan == <<Entry(compiled_llm_file, "llm", TRUE),
                       Entry(stdout_file, "review", TRUE),
                       Entry(stderr_file, "review", TRUE)>>
         IN  CleanupIfAll(RunUploads(plan, written, env.bad), written, env.rm)

post_process_nikto(dir, output_files, env) ==
    LET plan == UploadOrFalse(dir, stdout_file, "llm")
                \o UploadIfExists(dir, stdout_file, "review")
                \o UploadIfExists(dir, "nikto_results.json", "review")
    IN  CleanupIfAll(RunUploads(plan, dir, env.bad), dir, env.rm)

\* a variant whose branch for a missing subdirectory cleans up only when the
\* '_FAILURE' upload succeeded
post_process_sqlmap_guarded(dir, output_files, env) ==
    IF ~dir.exists
    THEN Outcome(<<>>, dir, TRUE)
    ELSE IF ~dir.subdir
    THEN CleanupIfAll(RunUploads(UploadIfExists(dir, stdout_file, "review_FAILURE"),
                                 dir, env.bad), dir, env.rm)
    ELSE LET plan == UploadOrFalse(dir, log_file, "llm")
                     \o UploadIfExists(dir, stdout_file, "review")
                     \o UploadIfExists(dir, log_file, "review")
         IN  CleanupIfAll(RunUploads(plan, dir, env.bad), dir, env.rm)

post_process_sqlmap(dir, output_files, env) ==
    IF ~dir.exists
    THEN Outcome(<<>>, dir, TRUE)     \* os.listdir(output_dir) raises
    ELSE IF ~dir.subdir
    THEN LET plan == UploadIfExists(dir, stdout_file, "review_FAILURE")
         IN  Outcome(RunUploads(plan, dir, env.bad),
                     delete_local_directory(dir, env.rm), FALSE)
    ELSE LET plan == UploadOrFalse(dir, log_file, "llm")
                     \o UploadIfExists(dir, stdout_file, "review")
                     \o UploadIfExists(dir, log_file, "review")
         IN  CleanupIfAll(RunUploads(plan, dir, env.bad), dir, env.rm)

post_process_trivy(dir, output_files, env) ==
    LET plan == UploadOrFalse(dir, "trivy_results.json", "review")
    IN  CleanupIfAll(RunUploads(plan, dir, env.bad), dir, env.rm)

post_process_lynis(dir, output_files, env) ==
    LET plan == UploadOrFalse(dir, stdout_file, "review")
    IN  CleanupIfAll(RunUploads(plan, dir, env.bad), dir, env.rm)

post_process_wpscan(dir, output_files, env) ==
    LET plan == UploadBothOrFalse(dir, "wpscan_results.json")
    IN  CleanupIfAll(RunUploads(plan, dir, env.bad), dir, env.rm)

post_process_semgrep(dir, output_files, env) ==
    LET plan == UploadBothOrFalse(dir, stderr_file)
    IN  CleanupIfAll(RunUploads(plan, dir, env.bad), dir, env.rm)

post_process_trufflehog(dir, output_files, env) ==
    LET plan == UploadBothOrFalse(dir, stdout_file)
    IN  CleanupIfAll(RunUploads(plan, dir, env.bad), dir, env.rm)

post_process_gitleaks(dir, output_files, env) ==
    LET plan == UploadBothOrFalse(dir, "gitleaks_results.json")
    IN  CleanupIfAll(RunUploads(plan, dir, env.bad), dir, env.rm)

post_process_yara(dir, output_files, env) ==
    LET plan == UploadBothOrFalse(dir, stderr_file)
    IN  CleanupIfAll(RunUploads(plan, dir, env.bad), dir, env.rm)

post_process_httpx(dir, output_files, env) ==
    IF ~PathExists(dir, stdout_file)
    THEN CleanupIfAll(RunUploads(<<Entry(stdout_file, "llm", FALSE)>>, dir, env.bad),
                      dir, env.rm)
    ELSE LET summarised == env.long /\ env.io
             written == IF summarised
                        THEN [dir EXCEPT !.files = @ \cup {summary_file}]
                        ELSE dir
             llm == IF ~env.long THEN Entry(stdout_file, "llm", TRUE)   \* StopIteration
                    ELSE IF env.io THEN Entry(summary_file, "llm", TRUE)
                    ELSE Entry(summary_file, "llm", FALSE)              \* except Exception
             plan == <<llm, Entry(stdout_file, "review", TRUE)>>
         IN  CleanupIfAll(RunUploads(plan, written, env.bad), written, env.rm)

\* the processors, named by their registry key; "default" is default_post_processor
Processors == RegisteredPostProcessors \cup {"default"}

\* get_post_processor: the registered processor, or the default
get_post_processor(tool_name) ==
    IF tool_name \in RegisteredPostProcessors THEN tool_name ELSE "default"

\* calling the processor `proc`
CallProcessor(proc, dir, output_files, env) ==
    CASE proc = "nuclei"     -> post_process_nuclei(dir, output_files, env)
      [] proc = "nikto"      -> post_process_nikto(dir, output_files, env)
      [] proc = "sqlmap"     -> post_process_sqlmap(dir, output_files, env)
      [] proc = "trivy"      -> post_process_trivy(dir, output_files, env)
      [] proc = "lynis"      -> post_process_lynis(dir, output_files, env)
      [] proc = "wpscan"     -> post_process_wpscan(dir, output_files, env)
      [] proc = "semgrep"    -> post_process_semgrep(dir, output_files, env)
      [] proc = "trufflehog" -> post_process_trufflehog(dir, output_files, env)
      [] proc = "gitleaks"   -> post_process_gitleaks(dir, output_files, env)
      [] proc = "yara"       -> post_process_yara(dir, output_files, env)
      [] proc = "httpx"      -> post_process_httpx(dir, output_files, env)
      [] OTHER               -> default_post_processor(dir, output_files, env)

\* the record of one processor invocation; proc = "none" before any
NoPP == [proc |-> "none", tool |-> "none", cands |-> <<>>, rm |-> TRUE,
         before |-> NoDir, ups |-> <<>>, raised |-> FALSE, after |-> NoDir]

\* the record of calling `proc` for `tool` on `dir`
Invocation(proc, tool, dir, cands, env) ==
    LET o == CallProcessor(proc, dir, cands, env)
    IN  [proc |-> proc, tool |-> tool, cands |-> cands, rm |-> env.rm,
         before |-> dir, ups |-> o.ups, raised |-> o.raised, after |-> o.dir]

\* the candidate list of lines 79-83: the two captured streams, then every
\* other regular file of the directory
EnumeratedFiles(dir) ==
    <<stdout_file, stderr_file>> \o Listing(dir.files \ {stdout_file, stderr_file})

----------------------------------------------------------------------------
(* app/tool_runner.py : ToolRunner.execute_command *)

\* The kinds of command a builder hands over: the tool's own command line,
\* the synthetic ["sh", "-c", "echo '...' >&2 && exit 1"] with a message the
\* builder wrote itself ("exit1"), and the same with the stderr of a failed
\* git clone pasted into the script ("clone_error").
Commands == {"tool", "exit1", "clone_error"}

\* How subprocess.run ends: the child's exit code, TimeoutExpired, or an
\* exception of the launch (binary not found, not executable). The script
\* with the builder's own message ends in exit 1; what the script with the
\* pasted stderr does depends on that text.
ChildOutcomes(cmd) ==
    CASE cmd = "exit1"       -> {"exit1"}
      [] cmd = "clone_error" -> {"exit0", "exit1"}
      [] OTHER               -> {"exit0", "exit1", "timeout", "launch_error"}

returncode(child) == IF child = "exit0" THEN 0 ELSE 1

\* What the child may leave in its output directory while it runs: sqlmap
\* creates a subdirectory named after the target, with or without its log.
SubdirEffects(tool, cmd) ==
    IF tool = "sqlmap" /\ cmd = "tool" THEN {"none", "dir", "dir_log"} ELSE {"none"}

FileEffects(tool, cmd) == IF cmd = "tool" THEN SUBSET ToolFiles(tool) ELSE {{}}

AfterChild(dir, wrote, sub) ==
    [exists |-> TRUE,
     files  |-> dir.files \cup wrote,
     subdir |-> dir.subdir \/ sub # "none",
     log    |-> IF dir.subdir THEN dir.log ELSE sub = "dir_log"]

QuietEnv == [bad |-> {}, rm |-> TRUE, io |-> TRUE, long |-> FALSE]

\* the post-processor inputs a run with this child outcome and this many
\* stream files written can read
ProcessorEnvs(tool, child, wr) ==
    IF wr < 2
    THEN {QuietEnv}
    ELSE [bad  : IF child = "timeout" THEN SUBSET {1} ELSE SUBSET (1..UploadSlots),
          rm   : BOOLEAN,
          io   : IF child = "exit0" /\ get_post_processor(tool) \in {"nuclei", "httpx"}
                 THEN BOOLEAN ELSE {TRUE},
          long : IF child = "exit0" /\ get_post_processor(tool) = "httpx"
                 THEN BOOLEAN ELSE {FALSE}]

\* The inputs of one run that the environment decides:
\*   mk    : os.makedirs(output_dir) succeeds
\*   child : how subprocess.run ends
\*   wrote, sub : what the child left in the directory
\*   wr    : how many of the stream files (stdout, then stderr) get written
\*   pp    : the inputs of the post-processor invocation
\* An input the run never reads is held at one value.
ExecEnvs(tool, cmd) ==
    {[mk |-> FALSE, child |-> "exit1", wrote |-> {}, sub |-> "none", wr |-> 2,
      pp |-> QuietEnv]}
    \cup
    UNION {
      IF child = "launch_error"
      THEN {[mk |-> TRUE, child |-> child, wrote |-> {}, sub |-> "none", wr |-> 2,
             pp |-> QuietEnv]}
      ELSE UNION {
             [mk : {TRUE}, child : {child}, wrote : FileEffects(tool, cmd),
              sub : SubdirEffects(tool, cmd), wr : {wr},
              pp : ProcessorEnvs(tool, child, wr)] :
             wr \in IF child = "timeout" THEN {0, 2} ELSE 0..2}
      : child \in ChildOutcomes(cmd)}

ToolOutput(tool_name, return_code, stderr, output_file_paths, success) ==
    [tool_name |-> tool_name, return_code |-> return_code, stderr |-> stderr,
     output_file_paths |-> output_file_paths, success |-> success]

\* what one run did: whether it raised to the caller, the ToolOutput it
\* returned, the directory afterwards, the processors it invoked in order,
\* the record of the last of them and how the child ended
Run(raised, out, dir, procs, inv, child) ==
    [raised |-> raised, out |-> out, dir |-> dir, procs |-> procs, inv |-> inv,
     child |-> child]

NoOutput == ToolOutput("none", 0, "none", <<>>, FALSE)

\* the except Exception branch (lines 117-123)
UnexpectedError(tool, dir, procs, inv, child) ==
    Run(FALSE, ToolOutput(tool, -1, "unexpected_error", <<>>, FALSE), dir, procs, inv, child)

execute_command(dir, tool, cmd, env) ==
    IF ~env.mk
    THEN Run(TRUE, NoOutput, dir, <<>>, NoPP, "not_started")     \* makedirs raises, line 63
    ELSE LET made == [dir EXCEPT !.exists = TRUE] IN
    IF env.child = "launch_error"
    THEN UnexpectedError(tool, made, <<>>, NoPP, env.child)
    ELSE LET ran == AfterChild(made, env.wrote, env.sub) IN
    IF env.child = "timeout"
    THEN IF env.wr = 0
         THEN Run(TRUE, NoOutput, ran, <<>>, NoPP, env.child)    \* open raises in the handler
         ELSE LET written == [ran EXCEPT !.files = @ \cup {stderr_file}]
                  inv == Invocation("default", tool, written, <<stderr_file>>, env.pp)
              IN  Run(FALSE, ToolOutput(tool, -1, "timeout", <<stderr_file>>, FALSE),
                      inv.after, <<"default">>, inv, env.child)
    ELSE IF env.wr < 2
    THEN UnexpectedError(tool,
            IF env.wr = 1 THEN [ran EXCEPT !.files = @ \cup {stdout_file}] ELSE ran,
            <<>>, NoPP, env.child)
    ELSE LET written == [ran EXCEPT !.files = @ \cup {stdout_file, stderr_file}]
             output_files == EnumeratedFiles(written)
             success == returncode(env.child) = 0
             proc == IF success THEN get_post_processor(tool) ELSE "default"
             inv == Invocation(proc, tool, written, output_files, env.pp)
         IN  IF inv.raised
             THEN UnexpectedError(tool, inv.after, <<proc>>, inv, env.child)
             ELSE Run(FALSE,
                      ToolOutput(tool, returncode(env.child), "captured", output_files, success),
                      inv.after, <<proc>>, inv, env.child)

----------------------------------------------------------------------------
(* A post-processor called on its own, on any output directory *)

\* the directories a tool's output directory can be
Dirs(tool) ==
    {NoDir} \cup
    {d \in [exists : {TRUE},
            files : SUBSET ({stdout_file, stderr_file} \cup ToolFiles(tool)),
            subdir : BOOLEAN, log : BOOLEAN] : d.log => d.subdir}

\* the two candidate lists execute_command passes: the enumeration, and the
\* stderr file alone
Candidates(dir) == {EnumeratedFiles(dir), <<stderr_file>>}

\* the record of one execute_command run; tool = "none" before any
NoEx == [tool |-> "none", cmd |-> "none", raised |-> FALSE, out |-> NoOutput,
         procs |-> <<>>, child |-> "none"]

Execution(tool, cmd, run) ==
    [tool |-> tool, cmd |-> cmd, raised |-> run.raised, out |-> run.out,
     procs |-> run.procs, child |-> run.child]

\* final_results.json before it is written
NoReport == [state |-> "none", results |-> <<>>, status |-> "none"]

ScanIdle ==
    /\ i = 0
    /\ command = "none"
    /\ results = <<>>
    /\ sink = <<>>
    /\ events = <<>>
    /\ report = NoReport
    /\ writes = 0
    /\ ret = "none"
    /\ faults = {}
    /\ polls = <<>>

scanVars == <<pc, tools, i, command, results, sink, events, report, writes, ret, faults,
              polls>>

\* one tool name and any state of its output directory
InitPP ==
    /\ \E t \in ToolNames : \E d \in Dirs(t) :
          /\ tools = <<Request(t, "ok")>>
          /\ fs = [x \in ToolNames |-> IF x = t THEN d ELSE NoDir]
    /\ pc = "direct"
    /\ pp = NoPP
    /\ ex = NoEx
    /\ ScanIdle

\* the processor registered for the tool, or the default one, is called on
\* the tool's output directory
InvokePostProcessor ==
    /\ pc = "direct"
    /\ \E proc \in {get_post_processor(tools[1].name), "default"} :
       \E cands \in Candidates(fs[tools[1].name]) : \E env \in Envs :
          /\ pp' = Invocation(proc, tools[1].name, fs[tools[1].name], cands, env)
          /\ fs' = [fs EXCEPT ![tools[1].name] = pp'.after]
    /\ UNCHANGED <<ex, scanVars>>

NextPP == InvokePostProcessor

SpecPP == InitPP /\ [][NextPP]_vars

----------------------------------------------------------------------------
(* execute_command called on its own, for any tool and any output directory *)

InitExec ==
    /\ \E t \in ToolNames : \E d \in Dirs(t) :
          /\ tools = <<Request(t, "ok")>>
          /\ fs = [x \in ToolNames |-> IF x = t THEN d ELSE NoDir]
    /\ command \in Commands
    /\ pc = "direct"
    /\ pp = NoPP
    /\ ex = NoEx
    /\ i = 0
    /\ results = <<>>
    /\ sink = <<>>
    /\ events = <<>>
    /\ report = NoReport
    /\ writes = 0
    /\ ret = "none"
    /\ faults = {}
    /\ polls = <<>>

ExecuteCommand ==
    /\ pc = "direct"
    /\ \E env \in ExecEnvs(tools[1].name, command) :
          LET run == execute_command(fs[tools[1].name], tools[1].name, command, env)
          IN  /\ ex' = Execution(tools[1].name, command, run)
              /\ pp' = run.inv
              /\ fs' = [fs EXCEPT ![tools[1].name] = run.dir]
    /\ UNCHANGED scanVars

NextExec == ExecuteCommand

SpecExec == InitExec /\ [][NextExec]_vars

----------------------------------------------------------------------------
(* app/tool_runner.py : the command builders, as far as the orchestrator sees *)

Built(raised, cmd, dir) == [raised |-> raised, cmd |-> cmd, dir |-> dir]

\* The inputs of one builder call that the environment decides:
\*   mk    : its os.makedirs (and the rmtree of _clone_repo) succeed
\*   clone : git clone exits 0
BuildEnvs == [mk : BOOLEAN, clone : BOOLEAN]

\* get_command_builder raises ValueError for a name that is not registered
get_command_builder(tool_name) == tool_name \in RegisteredBuilders

\* What builder(target, parameters, scan_id, tool_name) gives: an exception,
\* or a command, and the output directory as it leaves it.
build_command(request, dir, env) ==
    IF request.name \in DirBuilders
    THEN IF ~env.mk THEN Built(TRUE, "none", dir)
         ELSE IF request.name = "trivy" /\ request.req = "missing"
         THEN Built(TRUE, "none", [dir EXCEPT !.exists = TRUE])   \* raise ValueError
         ELSE Built(FALSE, "tool", [dir EXCEPT !.exists = TRUE])
    ELSE IF request.req = "missing"
    THEN Built(FALSE, "exit1", dir)
    ELSE IF ~env.mk THEN Built(TRUE, "none", dir)
    ELSE Built(FALSE, IF env.clone THEN "tool" ELSE "clone_error",
               [dir EXCEPT !.exists = TRUE, !.subdir = TRUE])

----------------------------------------------------------------------------
(* app/models.py : ToolParameter, and the strings the builders make of it *)

\* A value of ToolParameter.value (Optional[Any]): None, a string, a boolean
\* or a list of strings.
NoneValue == [t |-> "none", s |-> "", b |-> FALSE, l |-> <<>>]
StrValue(s) == [t |-> "str", s |-> s, b |-> FALSE, l |-> <<>>]
BoolValue(b) == [t |-> "bool", s |-> "", b |-> b, l |-> <<>>]
ListValue(l) == [t |-> "list", s |-> "", b |-> FALSE, l |-> l]

ToolParameter(flag, value, requiresValue) ==
    [flag |-> flag, value |-> value, requiresValue |-> requiresValue]

\* a repository URL that carries shell syntax: x;exit 0;
HostileURL == "x;exit 0;"

\* bool(value)
Truthy(v) ==
    CASE v.t = "none" -> FALSE
      [] v.t = "str"  -> v.s # ""
      [] v.t = "bool" -> v.b
      [] v.t = "list" -> v.l # <<>>

\* sep.join(l)
RECURSIVE JoinWith(_, _)
JoinWith(l, sep) ==
    IF l = <<>> THEN ""
    ELSE IF Len(l) = 1 THEN l[1]
    ELSE l[1] \o sep \o JoinWith(Tail(l), sep)

\* str(l) of a list of strings: ['a', 'b']
Repr(l) == "[" \o JoinWith([k \in 1..Len(l) |-> "'" \o l[k] \o "'"], ", ") \o "]"

\* str(value)
Str(v) ==
    CASE v.t = "none" -> "None"
      [] v.t = "str"  -> v.s
      [] v.t = "bool" -> IF v.b THEN "True" ELSE "False"
      [] v.t = "list" -> Repr(v.l)

\* isinstance(value, str)
IsStr(v) == v.t = "str"

RECURSIVE Concat(_)
Concat(ss) == IF Len(ss) = 0 THEN <<>> ELSE Head(ss) \o Concat(Tail(ss))

\* [f(p) for p in parameters if keep(p)], flattened
Extend(parameters, keep(_), f(_)) ==
    LET kept == SelectSeq(parameters, keep)
    IN  Concat([k \in 1..Len(kept) |-> f(kept[k])])

\* the first element of a sequence that satisfies `test`, as a sequence of
\* length 0 or 1 (next(..., None))
First(parameters, test(_)) ==
    LET found == SelectSeq(parameters, test)
    IN  IF Len(found) = 0 THEN <<>> ELSE <<found[1]>>

Elements(seq) == {seq[k] : k \in 1..Len(seq)}

\* how often `x` occurs in `seq`
Count(seq, x) == Len(SelectSeq(seq, LAMBDA y : y = x))

----------------------------------------------------------------------------
(* sh -c <script>, for the scripts the builders write *)

\* A script is a sequence of tokens:
\*   "echo"           the word echo
\*   "w"              any other run of ordinary characters
\*   "Q"              a single quote
\*   ";"  "&&"        the control operators
\*   ">&2"            the redirection
\*   "exit0" "exit1"  the words `exit 0` and `exit 1`
\* the tokens of a string that a builder pastes into a script
Tokens(s) ==
    CASE s = ""         -> <<>>
      [] s = HostileURL -> <<"w", ";", "exit0", ";">>
      [] OTHER          -> <<"w">>

\* the script with its quoted stretches collapsed: every token between two
\* quotes, and the quotes, become the one word "w"; "unterminated" when a
\* quote is left open
RECURSIVE Unquote(_, _, _)
Unquote(script, k, quoted) ==
    IF k > Len(script) THEN IF quoted THEN <<"unterminated">> ELSE <<>>
    ELSE IF script[k] = "Q"
    THEN (IF quoted THEN <<"w">> ELSE <<>>) \o Unquote(script, k + 1, ~quoted)
    ELSE IF quoted THEN Unquote(script, k + 1, quoted)
    ELSE <<script[k]>> \o Unquote(script, k + 1, quoted)

\* the shell reads the whole line before it runs any of it: an open quote or
\* an operator with no command before it is a syntax error
RECURSIVE WellFormed(_, _, _)
WellFormed(words, k, empty) ==
    IF k > Len(words) THEN TRUE
    ELSE IF words[k] = "unterminated" THEN FALSE
    ELSE IF words[k] \in {";", "&&"}
    THEN ~empty /\ WellFormed(words, k + 1, TRUE)
    ELSE WellFormed(words, k + 1, FALSE)

\* the status of the simple command that starts with `word`
CommandStatus(word, status) ==
    CASE word \in {"echo", ">&2"} -> 0
      [] word = "none"            -> status
      [] word = "skipped"         -> status
      [] OTHER                    -> 127       \* command not found

\* runs the words from position k on; `cmd` is the first word of the simple
\* command in hand ("none" before it, "skipped" after a failed && operand)
RECURSIVE Run_sh(_, _, _, _)
Run_sh(words, k, cmd, status) ==
    IF k > Len(words) THEN CommandStatus(cmd, status)
    ELSE LET w == words[k] IN
         IF w = ";" THEN Run_sh(words, k + 1, "none", CommandStatus(cmd, status))
         ELSE IF w = "&&"
         THEN LET s == CommandStatus(cmd, status)
              IN  Run_sh(words, k + 1, IF s = 0 THEN "none" ELSE "skipped", s)
         ELSE IF cmd = "none" /\ w = "exit0" THEN 0
         ELSE IF cmd = "none" /\ w = "exit1" THEN 1
         ELSE Run_sh(words, k + 1, IF cmd = "none" THEN w ELSE cmd, status)

\* the exit status of sh -c script
sh_exit(script) ==
    LET words == Unquote(script, 1, FALSE)
    IN  IF ~WellFormed(words, 1, TRUE) THEN 2 ELSE Run_sh(words, 1, "none", 0)

----------------------------------------------------------------------------
(* app/tool_runner.py : the command builders, argument by argument *)

\* outputs/{scan_id}/{tool_name} and the paths below it
OutputDir(tool) == "/app/outputs/s1/" \o tool
OutputFile(tool, name) == OutputDir(tool) \o "/" \o name
SourceDir(tool) == OutputFile(tool, "source")

\* what a builder gives: an exception, or an argument vector; `script` holds
\* the tokens of argv[2] when the vector is a synthetic ["sh", "-c", ...]
\* failure command; `clone` tells whether git clone was run and how it ended;
\* `dir` is the output directory as the builder leaves it
BuiltCommand(raised, argv, script, clone, dir) ==
    [raised |-> raised, argv |-> argv, script |-> script, clone |-> clone, dir |-> dir]

NoBuilt == BuiltCommand(FALSE, <<>>, <<>>, "none", NoDir)

Raises(dir) == BuiltCommand(TRUE, <<>>, <<>>, "none", dir)

\* ["sh", "-c", f"echo '{error_msg}' >&2 && exit 1"]: the message is pasted
\* between the two quotes as it is
SyntheticFailureCommand(message, clone, dir) ==
    BuiltCommand(FALSE, <<"sh", "-c", "echo '...' >&2 && exit 1">>,
                 <<"echo", "Q">> \o message \o <<"Q", ">&2", "&&", "exit1">>, clone, dir)

\* The inputs of one builder call that the environment decides:
\*   mk  : os.makedirs (and the rmtree of _clone_repo) succeed
\*   git : git clone exits 0, or fails with a message that names the
\*         repository in quotes (fatal: repository '<url>' not found), or
\*         fails with a message without quotes
GitOutcomes == {"ok", "fail_named", "fail_bare"}
BuilderEnvs == [mk : BOOLEAN, git : GitOutcomes]

\* the stripped stderr of the failed git clone, as script tokens
clone_stderr(repo_url, git) ==
    IF git = "fail_named" THEN <<"w", "Q">> \o Tokens(repo_url) \o <<"Q", "w">>
    ELSE <<"w">>

\* the default emission of one parameter (e.g. lines 211-216): flag and
\* str(value) when requiresValue and the value is not None, the flag alone
\* when not requiresValue and the value is truthy
EmitParameter(p) ==
    IF p.requiresValue /\ p.value.t # "none" THEN <<p.flag, Str(p.value)>>
    ELSE IF ~p.requiresValue /\ Truthy(p.value) THEN <<p.flag>>
    ELSE <<>>

\* the emission of build_nuclei_command (lines 172-180): a list is joined
\* with commas
EmitParameterJoined(p) ==
    IF p.requiresValue /\ p.value.t # "none"
    THEN <<p.flag, IF p.value.t = "list" THEN JoinWith(p.value.l, ",") ELSE Str(p.value)>>
    ELSE IF ~p.requiresValue /\ Truthy(p.value) THEN <<p.flag>>
    ELSE <<>>

\* a builder's first lines: os.makedirs(output_dir, exist_ok=True)
MakeOutputDir(dir) == [dir EXCEPT !.exists = TRUE]

build_nuclei_command(target, parameters, dir, env) ==
    IF ~env.mk THEN Raises(dir)
    ELSE LET paths == Extend(parameters, LAMBDA p : p.flag = "-t",
                             LAMBDA p : IF p.value.t = "list" THEN p.value.l
                                        ELSE IF Truthy(p.value) THEN <<Str(p.value)>>
                                        ELSE <<>>)
             templates == IF Len(paths) > 0
                          THEN Concat([k \in 1..Len(paths) |-> <<"-t", paths[k]>>])
                          ELSE <<"-t", "/root/nuclei-templates">>
         IN  BuiltCommand(FALSE,
                 <<"nuclei", "-u", target, "-no-color", "-stats", "-jsonl",
                   "-o", OutputFile("nuclei", "nuclei_results.json")>>
                 \o templates
                 \o Extend(parameters, LAMBDA p : p.flag # "-t" /\ p.flag # "",
                           EmitParameterJoined),
                 <<>>, "none", MakeOutputDir(dir))

\* a variant that leaves the output format to the caller
build_nikto_command_no_format(target, parameters, dir, env) ==
    IF ~env.mk THEN Raises(dir)
    ELSE BuiltCommand(FALSE,
             <<"perl", "/opt/nikto/program/nikto.pl", "-h", target>>
             \o Extend(parameters, LAMBDA p : p.flag \notin {"", "-h"}, EmitParameter),
             <<>>, "none", MakeOutputDir(dir))

build_nikto_command(target, parameters, dir, env) ==
    IF ~env.mk THEN Raises(dir)
    ELSE BuiltCommand(FALSE,
             <<"perl", "/opt/nikto/program/nikto.pl", "-h", target,
               "-Format", "json", "-o", OutputFile("nikto", "nikto_results.json")>>
             \o Extend(parameters, LAMBDA p : p.flag \notin {"", "-h", "-o", "-Format"},
                       EmitParameter),
             <<>>, "none", MakeOutputDir(dir))

build_sqlmap_command(target, parameters, dir, env) ==
    IF ~env.mk THEN Raises(dir)
    ELSE BuiltCommand(FALSE,
             <<"sqlmap", "-u", target, "--batch", "--output-dir", OutputDir("sqlmap") \o "/">>
             \o Extend(parameters,
                       LAMBDA p : p.flag \notin {"", "-u", "--output-dir", "--batch"},
                       EmitParameter),
             <<>>, "none", MakeOutputDir(dir))

\* image_name is the value of the last imageName parameter; a falsy one
\* raises ValueError after the directory was made, and one that is no string
\* makes ' '.join(cmd) of line 289 raise TypeError
build_trivy_command(target, parameters, dir, env) ==
    IF ~env.mk THEN Raises(dir)
    ELSE LET images == SelectSeq(parameters, LAMBDA p : p.flag = "imageName")
         IN  IF Len(images) = 0 \/ ~Truthy(images[Len(images)].value)
                \/ ~IsStr(images[Len(images)].value)
             THEN Raises(MakeOutputDir(dir))
             ELSE BuiltCommand(FALSE,
                      <<"trivy", "image", "--format", "json",
                        "-o", OutputFile("trivy", "trivy_results.json"),
                        Str(images[Len(images)].value)>>
                      \o Extend(parameters,
                                LAMBDA p : p.flag \notin {"", "imageName"}, EmitParameter),
                      <<>>, "none", MakeOutputDir(dir))

build_lynis_command(target, parameters, dir, env) ==
    IF ~env.mk THEN Raises(dir)
    ELSE BuiltCommand(FALSE,
             <<"lynis", "audit", "system", "--cronjob",
               "--logfile", OutputFile("lynis", "lynis.log"),
               "--report-file", OutputFile("lynis", "lynis-report.dat")>>
             \o Extend(parameters, LAMBDA p : p.flag # "", EmitParameter),
             <<>>, "none", MakeOutputDir(dir))

\* target.lower().startswith(('http://', 'https://'))
HasScheme(target) == target \in {"http://example.com", "https://example.com"}

build_wpscan_command(target, parameters, dir, env) ==
    IF ~env.mk THEN Raises(dir)
    ELSE LET renamed(p) == IF p.flag = "--random-agent"
                           THEN [p EXCEPT !.flag = "--random-user-agent"] ELSE p
         IN  BuiltCommand(FALSE,
                 <<"wpscan", "--url", IF HasScheme(target) THEN target ELSE "http://" \o target,
                   "--format", "json",
                   "--output", OutputFile("wpscan", "wpscan_results.json"), "--no-update">>
                 \o Extend(parameters, LAMBDA p : p.flag # "",
                           LAMBDA p : EmitParameter(renamed(p))),
                 <<>>, "none", MakeOutputDir(dir))

\* _clone_repo, and the same steps inside build_semgrep_command: the source
\* directory is made (after the removal of an old one in _clone_repo), git
\* _clone_repo: a source directory left by an earlier call is removed and
\* made anew, git clone runs, and its failure becomes a synthetic command
\* that carries "Failed to clone repository: " and the stderr of git. The
\* source directory is the subdirectory of the output directory, and the
\* working tree of a clone is what that subdirectory holds (log).
clone_repo(repo_url, tool, dir, env, argv(_)) ==
    IF ~env.mk THEN Raises(dir)
    ELSE LET made == [dir EXCEPT !.exists = TRUE, !.subdir = TRUE, !.log = FALSE]
         IN  IF env.git # "ok"
             THEN SyntheticFailureCommand(<<"w">> \o clone_stderr(repo_url, env.git),
                                          "failed", made)
             ELSE BuiltCommand(FALSE, argv(SourceDir(tool)), <<>>, "ok",
                               [made EXCEPT !.log = TRUE])

\* the stderr of git clone into a directory that is not empty (fatal:
\* destination path '<source>' already exists and is not an empty directory.)
destination_not_empty == <<"w", "Q", "w", "Q", "w">>

\* the clone of build_semgrep_command (lines 378-392): os.makedirs with
\* exist_ok on the source directory, which keeps what is in it, then git
\* clone, which refuses a destination that is not empty
clone_inline(repo_url, tool, dir, env, argv(_)) ==
    IF ~env.mk THEN Raises(dir)
    ELSE LET made == [dir EXCEPT !.exists = TRUE, !.subdir = TRUE]
         IN  IF dir.subdir /\ dir.log
             THEN SyntheticFailureCommand(<<"w">> \o destination_not_empty, "failed", made)
             ELSE IF env.git # "ok"
             THEN SyntheticFailureCommand(<<"w">> \o clone_stderr(repo_url, env.git),
                                          "failed", made)
             ELSE BuiltCommand(FALSE, argv(SourceDir(tool)), <<>>, "ok",
                               [made EXCEPT !.log = TRUE])

\* the missing-parameter messages: the semgrep and trufflehog ones put the
\* parameter's name in quotes, the gitleaks and yara ones have no quote
QuotingMessage == <<"w", "Q", "w", "Q", "w">>
PlainMessage == <<"w">>

build_semgrep_command(target, parameters, dir, env) ==
    LET git_url_param == First(parameters, LAMBDA p : p.flag = "gitURL")
    IN  IF Len(git_url_param) = 0 \/ ~IsStr(git_url_param[1].value)
        THEN SyntheticFailureCommand(QuotingMessage, "none", dir)
        ELSE clone_inline(git_url_param[1].value.s, "semgrep", dir, env,
                 LAMBDA source :
                     <<"semgrep", "scan", "--json",
                       "-o", OutputFile("semgrep", "semgrep_results.json"), source>>
                     \o (IF \E k \in 1..Len(parameters) : parameters[k].flag = "--config"
                         THEN <<>> ELSE <<"--config", "auto">>)
                     \o Extend(parameters, LAMBDA p : p.flag \notin {"", "gitURL"},
                               EmitParameter))

build_trufflehog_command(target, parameters, dir, env) ==
    LET repo_url_param == First(parameters, LAMBDA p : p.flag = "repoURL")
    IN  IF Len(repo_url_param) = 0 \/ ~IsStr(repo_url_param[1].value)
        THEN SyntheticFailureCommand(QuotingMessage, "none", dir)
        ELSE clone_repo(repo_url_param[1].value.s, "trufflehog", dir, env,
                 LAMBDA source :
                     <<"trufflehog", "filesystem", source, "--json">>
                     \o Extend(parameters,
                               LAMBDA p : p.flag \notin {"repoURL", "--regex", "--entropy"},
                               LAMBDA p : IF ~p.requiresValue /\ Truthy(p.value)
                                          THEN <<p.flag>> ELSE <<>>))

build_gitleaks_command(target, parameters, dir, env) ==
    LET repo_url_param == First(parameters, LAMBDA p : p.flag = "repoURL")
    IN  IF Len(repo_url_param) = 0 \/ ~IsStr(repo_url_param[1].value)
        THEN SyntheticFailureCommand(PlainMessage, "none", dir)
        ELSE clone_repo(repo_url_param[1].value.s, "gitleaks", dir, env,
                 LAMBDA source :
                     <<"gitleaks", "detect", "--source", source,
                       "-r", OutputFile("gitleaks", "gitleaks_results.json"), "-f", "json">>
                     \o Extend(parameters, LAMBDA p : p.flag # "repoURL", EmitParameter))

build_yara_command(target, parameters, dir, env) ==
    LET repo_url_param == First(parameters, LAMBDA p : p.flag = "repoURL")
    IN  IF Len(repo_url_param) = 0 \/ ~IsStr(repo_url_param[1].value)
        THEN SyntheticFailureCommand(PlainMessage, "none", dir)
        ELSE clone_repo(repo_url_param[1].value.s, "yara", dir, env,
                 LAMBDA source :
                     <<"yara", "-r", "/opt/yara-rules/index.yar", source>>
                     \o Extend(parameters, LAMBDA p : p.flag # "repoURL", EmitParameter))

\* shlex.quote: a string of safe characters only (letters, digits and
\* @%+=:,./-) is returned as it is, any other between single quotes (with
\* each single quote of its own replaced, which no string here holds)
shlex_quote(s) == IF Tokens(s) = <<"w">> THEN s ELSE "'" \o s \o "'"

\* the tokens sh reads for shlex.quote(s)
shlex_quote_tokens(s) ==
    IF Tokens(s) = <<"w">> THEN <<"w">> ELSE <<"Q">> \o Tokens(s) \o <<"Q">>

\* the tokens sh reads for the line of build_httpx_command: the pasted
\* words of base_cmd are one word each unless they hold shell operators, and
\* the scheme put before the target joins the target's first word
httpx_shell_command(target, parameters) ==
    <<"echo">> \o shlex_quote_tokens(target) \o <<"|", "httpx">>
    \o Concat([k \in 1..Len(parameters) |->
                  IF parameters[k].flag = "" THEN <<>>
                  ELSE [j \in 1..Len(EmitParameter(parameters[k])) |-> "w"]])
    \o Tokens(target)

\* the whole pipeline goes into one sh -c string
build_httpx_command(target, parameters, dir, env) ==
    IF ~env.mk THEN Raises(dir)
    ELSE LET base_cmd == <<"httpx">>
                         \o Extend(parameters, LAMBDA p : p.flag # "", EmitParameter)
                         \o <<IF HasScheme(target) THEN target ELSE "http://" \o target>>
         IN  BuiltCommand(FALSE,
                 <<"sh", "-c",
                   "echo " \o shlex_quote(target) \o " | " \o JoinWith(base_cmd, " ")>>,
                 <<>>, "none", MakeOutputDir(dir))

\* builder(target=..., parameters=..., scan_id=..., tool_name=...)
CallBuilder(tool, target, parameters, dir, env) ==
    CASE tool = "nuclei"     -> build_nuclei_command(target, parameters, dir, env)
      [] tool = "nikto"      -> build_nikto_command(target, parameters, dir, env)
      [] tool = "sqlmap"     -> build_sqlmap_command(target, parameters, dir, env)
      [] tool = "trivy"      -> build_trivy_command(target, parameters, dir, env)
      [] tool = "lynis"      -> build_lynis_command(target, parameters, dir, env)
      [] tool = "wpscan"     -> build_wpscan_command(target, parameters, dir, env)
      [] tool = "semgrep"    -> build_semgrep_command(target, parameters, dir, env)
      [] tool = "trufflehog" -> build_trufflehog_command(target, parameters, dir, env)
      [] tool = "gitleaks"   -> build_gitleaks_command(target, parameters, dir, env)
      [] tool = "yara"       -> build_yara_command(target, parameters, dir, env)
      [] tool = "httpx"      -> build_httpx_command(target, parameters, dir, env)

----------------------------------------------------------------------------
(* A builder called on its own, for any tool and any short parameter list *)

Targets == {"example.com", "http://example.com", HostileURL}

\* the flags a parameter of a request for `tool` may carry: the empty flag,
\* a flag the builder knows nothing about, and the flags it treats specially
\* or manages itself
FlagsFor(tool) ==
    {"", "-x"} \cup
    CASE tool = "nuclei"     -> {"-t", "-o"}
      [] tool = "nikto"      -> {"-o"}
      [] tool = "sqlmap"     -> {"--output-dir"}
      [] tool = "trivy"      -> {"imageName", "-o"}
      [] tool = "lynis"      -> {"--logfile"}
      [] tool = "wpscan"     -> {"--output", "--random-agent"}
      [] tool = "semgrep"    -> {"gitURL", "-o"}
      [] tool = "trufflehog" -> {"repoURL", "--regex"}
      [] tool = "gitleaks"   -> {"repoURL", "-r"}
      [] tool = "yara"       -> {"repoURL"}
      [] OTHER               -> {}

\* value and requiresValue of a parameter, in the combinations that the
\* emission rules tell apart
ParameterShapes ==
    {<<NoneValue, TRUE>>, <<StrValue("v"), TRUE>>, <<ListValue(<<"a", "b">>), TRUE>>,
     <<BoolValue(TRUE), FALSE>>, <<BoolValue(FALSE), FALSE>>}

ParametersFor(tool) ==
    {ToolParameter(f, sh[1], sh[2]) : f \in FlagsFor(tool) \ {""}, sh \in ParameterShapes}
    \cup {ToolParameter("", StrValue("v"), TRUE)}
    \cup {ToolParameter(f, StrValue(HostileURL), TRUE) :
              f \in FlagsFor(tool) \cap {"gitURL", "repoURL"}}

ParameterLists(tool, n) == UNION {[1..m -> ParametersFor(tool)] : m \in 0..n}

\* a ToolExecutionRequest with its parameters, and the target of the scan
BuildRequest(name, parameters, target) ==
    [name |-> name, parameters |-> parameters, target |-> target]

InitBuild ==
    /\ \E t \in RegisteredBuilders : \E ps \in ParameterLists(t, MaxParams) :
       \E tg \in Targets :
          tools = <<BuildRequest(t, ps, tg)>>
    /\ fs = [x \in ToolNames |-> NoDir]
    /\ command = NoBuilt
    /\ pc = "build"
    /\ pp = NoPP
    /\ ex = NoEx
    /\ i = 0
    /\ results = <<>>
    /\ sink = <<>>
    /\ events = <<>>
    /\ report = NoReport
    /\ writes = 0
    /\ ret = "none"
    /\ faults = {}
    /\ polls = <<>>

\* tasks.py lines 38-44, for one request
BuildCommand ==
    /\ pc = "build"
    /\ \E env \in BuilderEnvs :
          /\ command' = CallBuilder(tools[1].name, tools[1].target, tools[1].parameters,
                                    fs[tools[1].name], env)
          /\ fs' = [fs EXCEPT ![tools[1].name] = command'.dir]
    /\ pc' = "built"
    /\ UNCHANGED <<pp, ex, tools, i, results, sink, events, report, writes, ret, faults,
                   polls>>

\* the kind of command execute_command is handed
CommandKind(built) ==
    IF built.script = <<>> THEN "tool"
    ELSE IF built.clone = "failed" THEN "clone_error"
    ELSE "exit1"

\* how the child of a synthetic command ends
ShChild(script) == IF sh_exit(script) = 0 THEN "exit0" ELSE "exit1"

\* tasks.py lines 45-50, for a synthetic failure command: sh runs the script
RunSynthetic ==
    /\ pc = "built"
    /\ ~command.raised
    /\ command.script # <<>>
    /\ \E env \in ExecEnvs(tools[1].name, CommandKind(command)) :
          /\ env.mk => env.child = ShChild(command.script)
          /\ LET run == execute_command(fs[tools[1].name], tools[1].name,
                                        CommandKind(command), env)
             IN  /\ ex' = Execution(tools[1].name, CommandKind(command), run)
                 /\ pp' = run.inv
                 /\ fs' = [fs EXCEPT ![tools[1].name] = run.dir]
    /\ pc' = "ran"
    /\ UNCHANGED <<tools, i, command, results, sink, events, report, writes, ret, faults,
                   polls>>

\* the builder of a cloning tool is called again for the same scan and tool
\* name, the clone of the first call still in place; events keeps the first
\* command and what the environment does to the second call
BuildAgain ==
    /\ pc = "built"
    /\ tools[1].name \in CloneBuilders
    /\ command.clone = "ok"
    /\ \E env \in BuilderEnvs :
          /\ command' = CallBuilder(tools[1].name, tools[1].target, tools[1].parameters,
                                    fs[tools[1].name], env)
          /\ fs' = [fs EXCEPT ![tools[1].name] = command'.dir]
          /\ events' = <<[first |-> command, env |-> env]>>
    /\ pc' = "rebuilt"
    /\ UNCHANGED <<pp, ex, tools, i, results, sink, report, writes, ret, faults, polls>>

NextBuild ==
    \/ BuildCommand
    \/ RunSynthetic
    \/ BuildAgain

SpecBuild == InitBuild /\ [][NextBuild]_vars

----------------------------------------------------------------------------
(* tasks.py : execute_scan_logic *)

\* update_status_callback(tool_name, status): the sink receives the report.
Report(tool_name, status) == <<tool_name, status>>

\* a variant of the callback that lets the exception of its request escape
update_tool_status_uncaught(delivered) == ~delivered

\* Whether the callback raises to execute_scan_logic, given whether the
\* request reached the sink. update_tool_status catches the RequestException
\* of requests.post and of raise_for_status and logs it (argo_run_scan.py
\* lines 45-46); the lambda of the Celery wrapper does nothing at all.
update_tool_status(delivered) == FALSE

\* the fault a status call leaves behind
SinkFault(delivered) == IF delivered THEN {} ELSE {"sink"}

\* an upload of the invocation was attempted and failed
UploadFault(inv) ==
    IF \E k \in 1..Len(inv.ups) : inv.ups[k].att /\ ~inv.ups[k].ok
    THEN {"upload"} ELSE {}

Event(kind, k) == <<kind, k>>

\* the ToolOutput of line 62
SyntheticFailure(tool_name) == ToolOutput(tool_name, -1, "worker_error", <<>>, FALSE)

\* a variant that calls every scan with a failed tool "failed"
aggregate_status_strict(res) ==
    IF \A k \in 1..Len(res) : res[k].success THEN "success" ELSE "failed"

\* lines 64-65
aggregate_status(res) ==
    IF \A k \in 1..Len(res) : res[k].success THEN "success"
    ELSE IF \E k \in 1..Len(res) : res[k].success THEN "partial_failure"
    ELSE "failed"

\* the ScanResponse of lines 68-74, as serialised to final_results.json
ScanResponse(res) == [state |-> "complete", results |-> res, status |-> aggregate_status(res)]

\* the position after the body of the for loop ran for request k
AfterTool(k) == IF k < Len(tools) THEN "running" ELSE "persist"

\* every tool list of at most n requests
RequestLists(n) == UNION {[1..m -> ScanRequests] : m \in 0..n}

Init ==
    /\ tools \in RequestLists(MaxTools)
    /\ fs = [x \in ToolNames |-> NoDir]
    /\ pc = "start"
    /\ pp = NoPP
    /\ ex = NoEx
    /\ ScanIdle

\* line 28: ScanRequest(**scan_request_data) validates, or raises
Parse ==
    /\ pc = "start"
    /\ \E valid \in BOOLEAN :
          IF valid
          THEN /\ pc' = AfterTool(0)
               /\ i' = 1
               /\ ret' = ret
          ELSE /\ pc' = "done"
               /\ i' = i
               /\ ret' = "raised"
    /\ UNCHANGED <<fs, pp, ex, tools, command, results, sink, events, report, writes,
                   faults, polls>>

\* line 36
ReportRunning ==
    /\ pc = "running"
    /\ \E delivered \in BOOLEAN :
          /\ faults' = faults \cup SinkFault(delivered)
          /\ pc' = IF update_tool_status(delivered) THEN "except" ELSE "build"
    /\ sink' = Append(sink, Report(tools[i].name, "running"))
    /\ events' = Append(events, Event("running", i))
    /\ UNCHANGED <<fs, pp, ex, tools, i, command, results, report, writes, ret, polls>>

\* lines 38-44
Build ==
    /\ pc = "build"
    /\ IF ~get_command_builder(tools[i].name)
       THEN /\ events' = Append(events, Event("lookup_raised", i))
            /\ pc' = "except"
            /\ UNCHANGED <<fs, command>>
       ELSE \E env \in BuildEnvs :
            LET b == build_command(tools[i], fs[tools[i].name], env)
            IN  /\ fs' = [fs EXCEPT ![tools[i].name] = b.dir]
                /\ command' = b.cmd
                /\ events' = Append(events,
                                Event(IF b.raised THEN "build_raised" ELSE "built", i))
                /\ pc' = IF b.raised THEN "except" ELSE "execute"
    /\ UNCHANGED <<pp, ex, tools, i, results, sink, report, writes, ret, faults, polls>>

\* lines 45-50
Execute ==
    /\ pc = "execute"
    /\ \E env \in ExecEnvs(tools[i].name, command) :
          LET run == execute_command(fs[tools[i].name], tools[i].name, command, env)
          IN  /\ ex' = Execution(tools[i].name, command, run)
              /\ fs' = [fs EXCEPT ![tools[i].name] = run.dir]
              /\ events' = Append(events,
                              Event(IF run.raised THEN "exec_raised" ELSE "executed", i))
              /\ results' = IF run.raised THEN results ELSE Append(results, run.out)
              /\ pc' = IF run.raised THEN "except" ELSE "completed"
              /\ faults' = faults \cup UploadFault(run.inv)
    /\ UNCHANGED <<pp, tools, i, command, sink, report, writes, ret, polls>>

\* a variant that forgets the "completed" report
ReportCompletedSilent ==
    /\ pc = "completed"
    /\ i' = i + 1
    /\ pc' = AfterTool(i)
    /\ pp' = NoPP
    /\ ex' = NoEx
    /\ UNCHANGED <<fs, tools, command, results, sink, events, report, writes, ret, faults,
                   polls>>

\* a variant that saves the report after every tool that completed
ReportCompletedAndSave ==
    /\ pc = "completed"
    /\ \E delivered \in BOOLEAN : faults' = faults \cup SinkFault(delivered)
    /\ i' = i + 1
    /\ pc' = AfterTool(i)
    /\ pp' = NoPP
    /\ ex' = NoEx
    /\ sink' = Append(sink, Report(tools[i].name, "completed"))
    /\ events' = Append(events, Event("completed", i))
    /\ report' = ScanResponse(results)
    /\ writes' = writes + 1
    /\ UNCHANGED <<fs, tools, command, results, ret, polls>>

\* line 53
ReportCompleted ==
    /\ pc = "completed"
    /\ \E delivered \in BOOLEAN :
          /\ faults' = faults \cup SinkFault(delivered)
          /\ IF update_tool_status(delivered)
             THEN /\ pc' = "except"
                  /\ UNCHANGED <<i, pp, ex>>
             ELSE /\ i' = i + 1
                  /\ pc' = AfterTool(i)
                  /\ pp' = NoPP
                  /\ ex' = NoEx
    /\ sink' = Append(sink, Report(tools[i].name, "completed"))
    /\ events' = Append(events, Event("completed", i))
    /\ UNCHANGED <<fs, tools, command, results, report, writes, ret, polls>>

\* a variant without the inner try: the exception of one tool ends the scan
HandleExceptionReraise ==
    /\ pc = "except"
    /\ ret' = "raised"
    /\ pc' = "done"
    /\ UNCHANGED <<fs, pp, ex, tools, i, command, results, sink, events, report, writes,
                   faults, polls>>

\* a variant that reports the failure but appends no ToolOutput
HandleExceptionNoAppend ==
    /\ pc = "except"
    /\ sink' = Append(sink, Report(tools[i].name, "failed"))
    /\ events' = Append(events, Event("failed", i))
    /\ i' = i + 1
    /\ pc' = AfterTool(i)
    /\ pp' = NoPP
    /\ ex' = NoEx
    /\ UNCHANGED <<fs, tools, command, results, report, writes, ret, faults, polls>>

\* lines 55-62: the "failed" report of line 60 comes before the append of
\* line 62, and an exception of it leaves through the outer handler
HandleException ==
    /\ pc = "except"
    /\ \E delivered \in BOOLEAN :
          /\ faults' = faults \cup SinkFault(delivered)
          /\ IF update_tool_status(delivered)
             THEN /\ pc' = "done"
                  /\ ret' = "raised"
                  /\ UNCHANGED <<results, i, pp, ex>>
             ELSE /\ results' = Append(results, SyntheticFailure(tools[i].name))
                  /\ i' = i + 1
                  /\ pc' = AfterTool(i)
                  /\ pp' = NoPP
                  /\ ex' = NoEx
                  /\ ret' = ret
    /\ sink' = Append(sink, Report(tools[i].name, "failed"))
    /\ events' = Append(events, Event("failed", i))
    /\ UNCHANGED <<fs, tools, command, report, writes, polls>>

\* lines 64-82: the response is built, the scan directory made and
\* final_results.json opened for writing (which creates or truncates it)
PersistOpen ==
    /\ pc = "persist"
    /\ \E ok \in BOOLEAN :
          IF ok
          THEN /\ report' = [NoReport EXCEPT !.state = "empty"]
               /\ pc' = "write"
               /\ ret' = ret
          ELSE /\ report' = report
               /\ pc' = "done"
               /\ ret' = "raised"
    /\ events' = Append(events, Event("persist", i))
    /\ UNCHANGED <<fs, pp, ex, tools, i, command, results, sink, writes, faults, polls>>

\* lines 83-86: the JSON document is written and the function returns
PersistWrite ==
    /\ pc = "write"
    /\ \E ok \in BOOLEAN :
          IF ok
          THEN /\ report' = ScanResponse(results)
               /\ writes' = writes + 1
               /\ ret' = "complete"
          ELSE /\ report' = report
               /\ writes' = writes
               /\ ret' = "raised"
    /\ pc' = "done"
    /\ UNCHANGED <<fs, pp, ex, tools, i, command, results, sink, events, faults, polls>>

Next ==
    \/ Parse
    \/ ReportRunning
    \/ Build
    \/ Execute
    \/ ReportCompleted
    \/ HandleException
    \/ PersistOpen
    \/ PersistWrite

Spec == Init /\ [][Next]_vars

----------------------------------------------------------------------------
(* Properties of a post-processor invocation *)

Invoked == pp.proc # "none"
DeletedDir == pp.before.exists /\ ~pp.after.exists
AttemptedAllOk == \A k \in 1..Len(pp.ups) : pp.ups[k].att => pp.ups[k].ok
SqlmapNoSubdir == pp.proc = "sqlmap" /\ ~pp.before.subdir

\* C1 (as stated): whenever an invocation of any processor deletes the output
\* directory, every upload it attempted returned success.
C1_DeleteImpliesUploadsOk ==
    (Invoked /\ DeletedDir) => AttemptedAllOk

\* C1 (amended): the same, for every invocation except the sqlmap processor's
\* branch for a directory without subdirectory, which deletes regardless.
C1_DeleteImpliesUploadsOkExceptSqlmapFailure ==
    (Invoked /\ DeletedDir /\ ~SqlmapNoSubdir) => AttemptedAllOk

C1_Witness ==
    /\ pp.proc = "sqlmap" /\ pp.before.subdir
    /\ DeletedDir
    /\ Len(pp.ups) = 3

----------------------------------------------------------------------------
(* Properties of an execute_command run *)

Executed == ex.tool # "none"

\* C3: in every run, a child that exits 0 has the tool's processor (the
\* default one for an unregistered tool) invoked exactly once and nothing
\* else, and a child that exits non-zero or times out has the default
\* processor invoked exactly once and nothing else.
C3_ExactlyOneProcessor ==
    Executed =>
        /\ ex.child = "exit0" => ex.procs = <<get_post_processor(ex.tool)>>
        /\ ex.child \in {"exit1", "timeout"} => ex.procs = <<"default">>

\* C4: whenever the child ran to an exit code and a ToolOutput is returned,
\* its success flag equals (exit code = 0).
C4_SuccessIsExitStatus ==
    (Executed /\ ex.child \in {"exit0", "exit1"} /\ ~ex.raised)
        => (ex.out.success <=> ex.child = "exit0")

\* C5: no run of execute_command raises to its caller.
C5_NeverRaises ==
    Executed => ~ex.raised

----------------------------------------------------------------------------
(* Properties of execute_scan_logic *)

\* the positions of the event (kind, k) in the log
Pos(kind, k) == {n \in 1..Len(events) : events[n] = Event(kind, k)}

Happened(kind, k) == Pos(kind, k) # {}

RunningOf(k) == Pos("running", k)
TerminalOf(k) == Pos("completed", k) \cup Pos("failed", k)
BuilderOf(k) == Pos("lookup_raised", k) \cup Pos("build_raised", k) \cup Pos("built", k)
ExecutorOf(k) == Pos("exec_raised", k) \cup Pos("executed", k)

\* the builder or the executor of request k failed
FailedAt(k) ==
    Happened("lookup_raised", k) \/ Happened("build_raised", k) \/ Happened("exec_raised", k)

\* the for loop of a parsed request is over
LoopOver == pc \in {"persist", "write"} \/ (pc = "done" /\ i > 0)

PersistStarted == \E n \in 1..Len(events) : events[n][1] = "persist"

\* C6: a failure of the builder or executor of request k becomes the failed
\* ToolOutput of request k, and once the loop is over every later request
\* was reported running, had its builder looked up and called, and (when the
\* builder returned a command) was executed.
C6_FailureDoesNotEndIteration ==
    \A k \in 1..Len(tools) :
        FailedAt(k) =>
            /\ k < i => (Len(results) >= k /\ results[k] = SyntheticFailure(tools[k].name))
            /\ LoopOver =>
                  \A j \in (k + 1)..Len(tools) :
                      /\ RunningOf(j) # {}
                      /\ BuilderOf(j) # {}
                      /\ Happened("built", j) => ExecutorOf(j) # {}

C6_Witness ==
    /\ Len(tools) = 2
    /\ Happened("build_raised", 1)
    /\ Happened("executed", 2)
    /\ ret = "complete"

\* C7: the persisted ScanResponse holds exactly one ToolOutput per request,
\* the k-th carrying the name of the k-th request.
C7_OneResultPerRequestInOrder ==
    report.state = "complete" =>
        /\ Len(report.results) = Len(tools)
        /\ \A k \in 1..Len(tools) : report.results[k].tool_name = tools[k].name

C7_Witness ==
    /\ report.state = "complete"
    /\ Len(tools) = 2
    /\ report.results[1].success
    /\ ~report.results[2].success
    /\ tools[1].name # tools[2].name

AllSuccess(res) == \A k \in 1..Len(res) : res[k].success
SomeSuccess(res) == \E k \in 1..Len(res) : res[k].success
SomeFailure(res) == \E k \in 1..Len(res) : ~res[k].success

\* C8 (as stated): the persisted status is "success" if every ToolOutput
\* succeeded, "partial_failure" if some did and some did not, and "failed" if
\* none did.
C8_StatusByOutcomes ==
    report.state = "complete" =>
        /\ AllSuccess(report.results) => report.status = "success"
        /\ (SomeSuccess(report.results) /\ SomeFailure(report.results))
              => report.status = "partial_failure"
        /\ ~SomeSuccess(report.results) => report.status = "failed"

\* C8 (amended): the same, with "failed" only for a tool list that is not
\* empty; a scan of no tools is persisted with status "success".
C8_StatusByOutcomesNonEmpty ==
    report.state = "complete" =>
        /\ AllSuccess(report.results) => report.status = "success"
        /\ (SomeSuccess(report.results) /\ SomeFailure(report.results))
              => report.status = "partial_failure"
        /\ (~SomeSuccess(report.results) /\ Len(report.results) > 0)
              => report.status = "failed"

C8_Witness ==
    /\ report.state = "complete"
    /\ Len(report.results) = 2
    /\ report.results[1].success
    /\ ~report.results[2].success
    /\ report.status = "partial_failure"

IsReport(e) == e[1] \in {"running", "completed", "failed"}

\* the calls the sink must have received, given the log
ReportsOf(log) ==
    LET r == SelectSeq(log, IsReport)
    IN  [n \in 1..Len(r) |-> Report(tools[r[n][2]].name, r[n][1])]

\* C9: for each request the sink receives at most one "running" and at most
\* one terminal report ("completed" or "failed"), the running report precedes
\* the builder and the terminal report, nothing about the request follows its
\* terminal report, a request the loop has left has both, and persisting
\* starts only when every request has its terminal report.
C9_RunningThenOneTerminal ==
    /\ sink = ReportsOf(events)
    /\ \A k \in 1..Len(tools) :
          LET running  == RunningOf(k)
              terminal == TerminalOf(k)
          IN  /\ Cardinality(running) <= 1
              /\ Cardinality(terminal) <= 1
              /\ \A n \in BuilderOf(k) \cup ExecutorOf(k) \cup terminal :
                    \E m \in running : m < n
              /\ \A n \in terminal : \A m \in (n + 1)..Len(events) : events[m][2] # k
              /\ k < i => (Cardinality(running) = 1 /\ Cardinality(terminal) = 1)
              /\ (PersistStarted \/ report.state # "none") => terminal # {}

C9_Witness ==
    /\ Len(tools) = 2
    /\ report.state = "complete"
    /\ Happened("completed", 1)
    /\ Happened("failed", 2)

\* C10: execute_scan_logic raises only from the validation of the request or
\* from persisting the report; a run that ends otherwise returns "complete"
\* with the report written, and no run stops before it ends.
C10_RaisesOnlyFromParseOrPersist ==
    /\ ret = "raised" => (i = 0 \/ (PersistStarted /\ report.state # "complete"))
    /\ (pc = "done" /\ ret # "raised") => (ret = "complete" /\ report.state = "complete")
    /\ pc # "done" => ret = "none"
    /\ pc # "done" => ENABLED Next

C10_Witness ==
    /\ ret = "complete"
    /\ \E k \in 1..Len(tools) : Happened("exec_raised", k)
    /\ \E k \in 1..Len(tools) : Happened("lookup_raised", k)

\* C11: once a status call or an artifact upload has failed, the scan still
\* ends only after persisting was started, with a terminal report and one
\* result for every request; the only exception it can still raise is the
\* one of persisting itself.
C11_FaultsNeverAbort ==
    faults # {} =>
        /\ ret = "raised" => PersistStarted
        /\ pc = "done" => PersistStarted
        /\ (LoopOver \/ pc = "done") =>
              /\ Len(results) = Len(tools)
              /\ \A k \in 1..Len(tools) : TerminalOf(k) # {}
        /\ ret = "complete" => (report.state = "complete"
                                /\ Len(report.results) = Len(tools))

C11_Witness ==
    /\ ret = "complete"
    /\ faults = {"sink", "upload"}
    /\ Len(tools) = 2
    /\ results[1].success
    /\ Happened("lookup_raised", 2)
    /\ report.state = "complete"

\* C12: final_results.json is written at most once in a run, only when every
\* request has its result and its terminal report; the write is the last
\* step of the run, which then returns, and a run that returns has written
\* it exactly once, with the results of the run.
C12_ReportWrittenOnceAtEnd ==
    /\ writes <= 1
    /\ report.state # "none" =>
          /\ Len(results) = Len(tools)
          /\ \A k \in 1..Len(tools) : TerminalOf(k) # {}
    /\ writes = 1 => (pc = "done" /\ ret = "complete")
    /\ ret = "complete" => (writes = 1 /\ report = ScanResponse(results))

C12_Witness ==
    /\ ret = "complete"
    /\ writes = 1
    /\ Len(tools) = 2
    /\ Len(report.results) = 2

\* C13: a run whose child exceeds the timeout writes output.stderr, invokes
\* the default post-processor on the stderr file alone, and returns a
\* ToolOutput with return_code -1 and success false.
C13_TimeoutPath ==
    (Executed /\ ex.child = "timeout") =>
        /\ ~ex.raised
        /\ ex.procs = <<"default">>
        /\ pp.proc = "default"
        /\ pp.cands = <<stderr_file>>
        /\ stderr_file \in pp.before.files
        /\ ex.out.return_code = -1
        /\ ~ex.out.success

\* C14: a run that returns through the unexpected-failure path (return_code
\* -1, no output files, success false) invoked no post-processor and made
\* no upload attempt.
C14_UnexpectedPathSkipsProcessing ==
    (Executed /\ ~ex.raised /\ ex.out.stderr = "unexpected_error") =>
        /\ ex.procs = <<>>
        /\ ~Invoked
        /\ \A k \in 1..Len(pp.ups) : ~pp.ups[k].att

\* the files each tool-specific processor looks for in the output directory
ExpectedFiles(proc) ==
    CASE proc = "nuclei"     -> {stdout_file, stderr_file}
      [] proc = "nikto"      -> {stdout_file, "nikto_results.json"}
      [] proc = "sqlmap"     -> {stdout_file, log_file}
      [] proc = "trivy"      -> {"trivy_results.json"}
      [] proc = "lynis"      -> {stdout_file}
      [] proc = "wpscan"     -> {"wpscan_results.json"}
      [] proc = "semgrep"    -> {stderr_file}
      [] proc = "trufflehog" -> {stdout_file}
      [] proc = "gitleaks"   -> {"gitleaks_results.json"}
      [] proc = "yara"       -> {stderr_file}
      [] proc = "httpx"      -> {stdout_file}
      [] OTHER               -> {}

\* the invocation found one of the files its processor looks for absent
ExpectedAbsent == \E f \in ExpectedFiles(pp.proc) : ~PathExists(pp.before, f)

\* C15: a tool-specific processor that finds an expected file absent does not
\* raise, collects a failed upload for it, and leaves the output directory
\* as it found it.
C15_AbsentFileKeepsDirectory ==
    (Invoked /\ pp.proc # "default" /\ ExpectedAbsent) =>
        /\ ~pp.raised
        /\ ~AllSucceeded(pp.ups)
        /\ pp.after.exists = pp.before.exists

----------------------------------------------------------------------------
(* Properties of the command builders *)

\* a builder was called on the request
BuilderCalled == pc \in {"built", "ran"}

\* the flags every command of the tool carries, whatever the parameters
MandatoryFlags(tool) ==
    CASE tool = "nuclei"     -> {"-no-color", "-stats", "-jsonl", "-o"}
      [] tool = "nikto"      -> {"-Format", "-o"}
      [] tool = "sqlmap"     -> {"--batch", "--output-dir"}
      [] tool = "trivy"      -> {"--format", "-o"}
      [] tool = "lynis"      -> {"--cronjob", "--logfile", "--report-file"}
      [] tool = "wpscan"     -> {"--format", "--output", "--no-update"}
      [] tool = "semgrep"    -> {"--json", "-o"}
      [] tool = "trufflehog" -> {"--json"}
      [] tool = "gitleaks"   -> {"-r", "-f"}
      [] tool = "yara"       -> {"-r"}
      [] OTHER               -> {}

\* the builders that insist on no parameter
FreeBuilders == {"nuclei", "nikto", "sqlmap", "lynis", "wpscan", "httpx"}

\* C16 as stated: every builder called with an empty parameter list returns,
\* without raising, a command that carries the tool's mandatory flags.
C16_EmptyListNeverRaises ==
    (BuilderCalled /\ tools[1].parameters = <<>>) =>
        /\ ~command.raised
        /\ MandatoryFlags(tools[1].name) \subseteq Elements(command.argv)

\* C16: called with an empty parameter list, a builder that insists on no
\* parameter raises only when its output directory cannot be made and
\* otherwise returns a command with the tool's mandatory flags; the trivy
\* builder raises, and the four cloning builders return the synthetic
\* failure command without having cloned.
C16_EmptyListByKindOfBuilder ==
    (BuilderCalled /\ tools[1].parameters = <<>>) =>
        /\ tools[1].name \in FreeBuilders =>
              /\ command.raised => ~command.dir.exists
              /\ ~command.raised =>
                    /\ command.script = <<>>
                    /\ MandatoryFlags(tools[1].name) \subseteq Elements(command.argv)
        /\ tools[1].name = "trivy" => command.raised
        /\ tools[1].name \in CloneBuilders =>
              /\ ~command.raised
              /\ command.script # <<>>
              /\ command.clone = "none"

C16_Witness ==
    /\ pc = "built"
    /\ tools[1].name = "wpscan"
    /\ tools[1].parameters = <<>>
    /\ ~command.raised
    /\ "--no-update" \in Elements(command.argv)

\* the parameter a cloning builder takes the repository from
UrlFlag(tool) == IF tool = "semgrep" THEN "gitURL" ELSE "repoURL"

\* the request names no repository, or names one that is no string
UrlMissing ==
    LET url == First(tools[1].parameters, LAMBDA p : p.flag = UrlFlag(tools[1].name))
    IN  Len(url) = 0 \/ ~IsStr(url[1].value)

\* C17: a cloning builder whose repository parameter is absent or no string
\* raises, and runs no git clone.
C17_MissingUrlRaises ==
    (BuilderCalled /\ tools[1].name \in CloneBuilders /\ UrlMissing) =>
        /\ command.raised
        /\ command.clone = "none"

\* C18: a cloning builder whose git clone failed does not raise and returns
\* a synthetic command, and a run of that command that execute_command
\* returns from gives a ToolOutput with a return code other than 0 and
\* success false.
C18_CloneFailureExitsNonZero ==
    (BuilderCalled /\ command.clone = "failed") =>
        /\ ~command.raised
        /\ command.script # <<>>
        /\ (pc = "ran" /\ ~ex.raised) =>
              /\ ex.out.return_code # 0
              /\ ~ex.out.success

\* the output flags a builder sets itself, with the values it gives them
ManagedArguments(tool) ==
    CASE tool = "nuclei"   -> {<<"-o", OutputFile("nuclei", "nuclei_results.json")>>}
      [] tool = "nikto"    -> {<<"-o", OutputFile("nikto", "nikto_results.json")>>,
                               <<"-Format", "json">>}
      [] tool = "sqlmap"   -> {<<"--output-dir", OutputDir("sqlmap") \o "/">>}
      [] tool = "trivy"    -> {<<"-o", OutputFile("trivy", "trivy_results.json")>>,
                               <<"--format", "json">>}
      [] tool = "lynis"    -> {<<"--logfile", OutputFile("lynis", "lynis.log")>>,
                               <<"--report-file", OutputFile("lynis", "lynis-report.dat")>>}
      [] tool = "wpscan"   -> {<<"--output", OutputFile("wpscan", "wpscan_results.json")>>,
                               <<"--format", "json">>}
      [] tool = "semgrep"  -> {<<"-o", OutputFile("semgrep", "semgrep_results.json")>>}
      [] tool = "gitleaks" -> {<<"-r", OutputFile("gitleaks", "gitleaks_results.json")>>,
                               <<"-f", "json">>}
      [] OTHER             -> {}

\* the builder returned the tool's own command line
BuiltToolCommand == BuilderCalled /\ ~command.raised /\ command.script = <<>>

\* C19: in every command a builder returns, each output flag the builder
\* manages occurs exactly once, followed by the value the builder chose.
C19_ManagedFlagsOnce ==
    BuiltToolCommand =>
        \A a \in ManagedArguments(tools[1].name) :
            /\ Count(command.argv, a[1]) = 1
            /\ \E k \in 1..(Len(command.argv) - 1) :
                  command.argv[k] = a[1] /\ command.argv[k + 1] = a[2]

\* the flags a builder has a special case for
SpecialFlags(tool) ==
    {""} \cup
    CASE tool = "nuclei"     -> {"-t"}
      [] tool = "nikto"      -> {"-h", "-o", "-Format"}
      [] tool = "sqlmap"     -> {"-u", "--output-dir", "--batch"}
      [] tool = "trivy"      -> {"imageName"}
      [] tool = "wpscan"     -> {"--random-agent"}
      [] tool = "semgrep"    -> {"gitURL", "--config"}
      [] tool = "trufflehog" -> {"repoURL", "--regex", "--entropy"}
      [] tool = "gitleaks"   -> {"repoURL"}
      [] tool = "yara"       -> {"repoURL"}
      [] OTHER               -> {}

\* what the default rule lets a parameter contribute
DefaultEmissions(p) ==
    IF p.requiresValue /\ p.value.t # "none"
    THEN IF p.value.t = "list"
         THEN {<<p.flag, JoinWith(p.value.l, ",")>>,
               Concat([k \in 1..Len(p.value.l) |-> <<p.flag, p.value.l[k]>>])}
         ELSE {<<p.flag, Str(p.value)>>}
    ELSE IF ~p.requiresValue /\ Truthy(p.value) THEN {<<p.flag>>}
    ELSE {<<>>}

\* C20: a last parameter that no special case claims adds to the command
\* exactly what the default rule says (the httpx builder, which folds its
\* arguments into one shell string, left aside).
C20_DefaultEmission ==
    (BuiltToolCommand /\ tools[1].name # "httpx" /\ Len(tools[1].parameters) > 0) =>
        LET ps == tools[1].parameters
            p == ps[Len(ps)]
            before == CallBuilder(tools[1].name, tools[1].target,
                                  SubSeq(ps, 1, Len(ps) - 1), NoDir,
                                  [mk |-> TRUE, git |-> "ok"])
        IN  (p.flag \notin SpecialFlags(tools[1].name) /\ ~before.raised
                /\ before.script = <<>>) =>
                \E e \in DefaultEmissions(p) : command.argv = before.argv \o e

----------------------------------------------------------------------------
(* default_post_processor called twice in a row with the same arguments *)

\* a tool without a processor of its own, and any state of its directory
InitRepeat ==
    /\ \E d \in Dirs("nmap") :
          /\ tools = <<Request("nmap", "ok")>>
          /\ fs = [x \in ToolNames |-> IF x = "nmap" THEN d ELSE NoDir]
    /\ pc = "first"
    /\ pp = NoPP
    /\ ex = NoEx
    /\ ScanIdle

\* the first call, on a candidate list execute_command can pass; events
\* keeps the record of the call
InvokeDefault ==
    /\ pc = "first"
    /\ \E cands \in Candidates(fs["nmap"]) : \E env \in Envs :
          /\ pp' = Invocation("default", "nmap", fs["nmap"], cands, env)
          /\ fs' = [fs EXCEPT !["nmap"] = pp'.after]
          /\ events' = <<pp'>>
    /\ pc' = "second"
    /\ UNCHANGED <<ex, tools, i, command, results, sink, report, writes, ret, faults,
                   polls>>

\* the second call, with the arguments of the first
InvokeDefaultAgain ==
    /\ pc = "second"
    /\ \E env \in Envs :
          /\ pp' = Invocation("default", "nmap", fs["nmap"], events[1].cands, env)
          /\ fs' = [fs EXCEPT !["nmap"] = pp'.after]
    /\ pc' = "twice"
    /\ UNCHANGED <<ex, tools, i, command, results, sink, events, report, writes, ret, faults,
                   polls>>

NextRepeat ==
    \/ InvokeDefault
    \/ InvokeDefaultAgain

SpecRepeat == InitRepeat /\ [][NextRepeat]_vars

\* none of the candidate files was there when the invocation started
NoCandidateExists(inv) ==
    \A k \in 1..Len(inv.cands) : ~PathExists(inv.before, inv.cands[k])

\* the invocation called upload_file_to_gcs
AttemptedUpload(inv) == \E k \in 1..Len(inv.ups) : inv.ups[k].att

\* both calls were made, and the first found none of its candidates
TwiceOnNothing == pc = "twice" /\ NoCandidateExists(events[1])

\* C21 as stated: two calls in a row of the default processor on a directory
\* with none of the candidate files are both no-ops: neither raises, neither
\* attempts an upload, neither changes the filesystem.
C21_TwiceIsNoOp ==
    TwiceOnNothing =>
        \A inv \in {events[1], pp} :
            /\ ~inv.raised
            /\ ~AttemptedUpload(inv)
            /\ inv.after = inv.before

\* C21: of two calls in a row of the default processor on a directory with
\* none of the candidate files, neither raises and neither attempts an
\* upload; a call that finds the directory removes it with all it holds
\* unless rmtree fails, and a call that finds no directory changes nothing.
C21_TwiceUploadsNothing ==
    TwiceOnNothing =>
        \A inv \in {events[1], pp} :
            /\ ~inv.raised
            /\ ~AttemptedUpload(inv)
            /\ inv.after = IF inv.before.exists /\ inv.rm THEN NoDir ELSE inv.before

C21_Witness ==
    /\ TwiceOnNothing
    /\ events[1].before.exists
    /\ events[1].before.files # {}
    /\ events[1].after = NoDir
    /\ pp.before = NoDir
    /\ pp.after = NoDir

----------------------------------------------------------------------------
(* post_process_sqlmap *)

\* the sqlmap processor ran on an output directory that exists
SqlmapInvoked == pp.proc = "sqlmap" /\ pp.before.exists

\* the uploads of the invocation that went to the '_FAILURE' name
FailureUploads == {k \in 1..Len(pp.ups) : pp.ups[k].dest = "review_FAILURE"}

\* C22: without a subdirectory the sqlmap processor attempts one upload at
\* most, output.stdout under the review path with the '_FAILURE' suffix and
\* only when that file exists, and calls for the deletion of the output
\* directory whatever the upload returned; with a subdirectory it makes no
\* '_FAILURE' upload and deletes exactly when every collected boolean is true.
C22_SqlmapFailureBranch ==
    SqlmapInvoked =>
        /\ ~pp.raised
        /\ ~pp.before.subdir =>
              /\ pp.ups = IF PathExists(pp.before, stdout_file)
                          THEN <<[file |-> stdout_file, dest |-> "review_FAILURE",
                                  att |-> TRUE, ok |-> pp.ups[1].ok]>>
                          ELSE <<>>
              /\ pp.after = IF pp.rm THEN NoDir ELSE pp.before
        /\ pp.before.subdir =>
              /\ FailureUploads = {}
              /\ pp.after = IF AllSucceeded(pp.ups) /\ pp.rm THEN NoDir ELSE pp.before

C22_Witness ==
    /\ SqlmapInvoked
    /\ ~pp.before.subdir
    /\ Len(pp.ups) = 1
    /\ pp.ups[1].att /\ ~pp.ups[1].ok
    /\ pp.after = NoDir

----------------------------------------------------------------------------
(* A cloning builder called twice *)

\* the second call was made, and nothing of the environment fails in it
RebuiltReachable ==
    pc = "rebuilt" /\ events[1].env.mk /\ events[1].env.git = "ok"

\* C23: a cloning builder called while the source directory holds the clone
\* of an earlier call replaces it, and with a reachable repository returns
\* the scan command the first call returned, not a clone failure.
C23_SecondCallLikeFirst ==
    RebuiltReachable =>
        /\ ~command.raised
        /\ command.clone = "ok"
        /\ command.script = <<>>
        /\ command.argv = events[1].first.argv

----------------------------------------------------------------------------
(* The shell line of build_httpx_command *)

\* the operators of a script that stand outside quotes
Operators(script) ==
    SelectSeq(Unquote(script, 1, FALSE), LAMBDA w : w \in {"|", ";", "&&", "unterminated"})

\* the httpx builder returned its command
HttpxBuilt == BuilderCalled /\ tools[1].name = "httpx" /\ ~command.raised

\* C24: the httpx builder returns ['sh', '-c', line], and the line is one
\* pipeline of echo into httpx whatever the target: the target's text never
\* stands outside quotes where the shell reads operators.
C24_TargetCannotChangeLine ==
    HttpxBuilt =>
        /\ Len(command.argv) = 3
        /\ command.argv[1] = "sh" /\ command.argv[2] = "-c"
        /\ Operators(httpx_shell_command(tools[1].target, tools[1].parameters)) = <<"|">>

----------------------------------------------------------------------------
(* The terminal status of a tool against its ToolOutput *)

\* C25: for each tool of a scan, the terminal status reported to the sink is
\* 'failed' exactly when the ToolOutput appended for it has success false,
\* and 'completed' exactly when it has success true.
C25_StatusMatchesSuccess ==
    \A k \in 1..Len(results) :
        /\ Happened("completed", k) => results[k].success
        /\ Happened("failed", k) => ~results[k].success

----------------------------------------------------------------------------
(* Output directories left behind by a scan *)

\* execute_scan_logic returned its response
ScanReturned == pc = "done" /\ ret = "complete"

\* C26: when every upload attempted during the scan succeeded, no output
\* directory of a tool is left on disk when execute_scan_logic returns.
C26_NoDirectoryLeftBehind ==
    (ScanReturned /\ "upload" \notin faults) =>
        \A t \in ToolNames : ~fs[t].exists

----------------------------------------------------------------------------
(* Files of an earlier invocation in a later candidate list *)

\* execute_command returned for request i, which ran a synthetic failure
\* command: sh writes nothing, so the invocation wrote the two captured
\* streams and no file of the tool
RanSynthetic == pc = "completed" /\ command \in {"exit1", "clone_error"}

\* C27: the candidate list of an invocation holds only files written during
\* that invocation; here, for an invocation that wrote none of the tool's
\* files, the list that execute_command enumerated and reported holds none,
\* whatever an earlier invocation for the same tool name left behind.
C27_CandidatesAreOwnFiles ==
    RanSynthetic =>
        Elements(results[Len(results)].output_file_paths) \cap ToolFiles(tools[i].name) = {}

----------------------------------------------------------------------------
(* main.py : get_results, polling while the scan runs *)

\* an answer of GET /results/{scan_id}: the status code and the document
Answer(code, body) == [code |-> code, body |-> body]

\* get_results: 202 "pending" while final_results.json does not exist; the
\* parsed document with 200 when it does; json.load raises on a file that
\* was opened for writing and holds no document yet, which the handler
\* turns into 500 "Could not retrieve scan results"
get_results(file) ==
    CASE file.state = "none"  -> Answer(202, NoReport)
      [] file.state = "empty" -> Answer(500, NoReport)
      [] OTHER                -> Answer(200, file)

\* a scan of one tool request at most
InitPoll ==
    /\ tools \in RequestLists(1)
    /\ fs = [x \in ToolNames |-> NoDir]
    /\ pc = "start"
    /\ pp = NoPP
    /\ ex = NoEx
    /\ ScanIdle

\* a client asks for the results, at any moment of the scan
Poll ==
    /\ Len(polls) < MaxPolls
    /\ polls' = Append(polls, get_results(report))
    /\ UNCHANGED <<fs, pp, ex, pc, tools, i, command, results, sink, events, report, writes,
                   ret, faults>>

NextPoll ==
    \/ Next
    \/ Poll

SpecPoll == InitPoll /\ [][NextPoll]_vars

\* the answer is the complete report of the scan, one ToolOutput per request
CompleteAnswer(a) ==
    /\ a.code = 200
    /\ a.body.state = "complete"
    /\ Len(a.body.results) = Len(tools)

\* C28: every answer of get_results during a scan is the 'pending' answer or
\* the complete final report, and after an answer with the report every
\* later answer is that same report.
C28_PendingOrComplete ==
    \A k \in 1..Len(polls) :
        /\ polls[k].code = 202 \/ CompleteAnswer(polls[k])
        /\ \A j \in 1..(k - 1) : CompleteAnswer(polls[j]) => polls[k] = polls[j]

----------------------------------------------------------------------------
(* argo_run_scan.py : main, from the hand-off to the scan logic on *)

\* update_scan_status(scan_id, status): the call to the scan-level endpoint
\* of the status sink; like update_tool_status it catches the failure of
\* its request
ScanReport(status) == <<"scan", status>>

\* how publish_to_pubsub ends: a message was published within the five
\* attempts; every attempt failed and the function gave up and returned;
\* or PublisherClient() or topic_path raised, before the loop and outside
\* its try
PublishOutcomes == {"published", "gave_up", "client_error"}

\* the payload was downloaded and main is about to report and hand off
InitMain ==
    /\ tools \in RequestLists(1)
    /\ fs = [x \in ToolNames |-> NoDir]
    /\ pc = "main"
    /\ pp = NoPP
    /\ ex = NoEx
    /\ ScanIdle

\* line 142: update_scan_status(scan_id, "vuln_running"), then lines 145-149
\* hand off to execute_scan_logic
ReportScanRunning ==
    /\ pc = "main"
    /\ \E delivered \in BOOLEAN : faults' = faults \cup SinkFault(delivered)
    /\ sink' = Append(sink, ScanReport("vuln_running"))
    /\ pc' = "start"
    /\ UNCHANGED <<fs, pp, ex, tools, i, command, results, events, report, writes, ret,
                   polls>>

\* line 153, after execute_scan_logic returned
ReportScanComplete ==
    /\ pc = "done"
    /\ ret = "complete"
    /\ \E delivered \in BOOLEAN : faults' = faults \cup SinkFault(delivered)
    /\ sink' = Append(sink, ScanReport("vuln_complete"))
    /\ pc' = "publish"
    /\ UNCHANGED <<fs, pp, ex, tools, i, command, results, events, report, writes, ret,
                   polls>>

\* line 156: publish_to_pubsub, then sys.exit(0), which except Exception does
\* not catch; an exception of publish_to_pubsub lands in the handler of
\* lines 161-166, which reports 'failed' and exits 1
Publish ==
    /\ pc = "publish"
    /\ \E outcome \in PublishOutcomes : \E delivered \in BOOLEAN :
          CASE outcome = "published" ->
                 /\ events' = Append(events, Event("published", 0))
                 /\ pc' = "exit0"
                 /\ UNCHANGED <<sink, faults>>
            [] outcome = "gave_up" ->
                 /\ pc' = "exit0"
                 /\ UNCHANGED <<events, sink, faults>>
            [] OTHER ->
                 /\ sink' = Append(sink, ScanReport("failed"))
                 /\ faults' = faults \cup SinkFault(delivered)
                 /\ pc' = "exit1"
                 /\ UNCHANGED events
    /\ UNCHANGED <<fs, pp, ex, tools, i, command, results, report, writes, ret, polls>>

\* lines 161-166, after execute_scan_logic raised
ReportScanFailed ==
    /\ pc = "done"
    /\ ret = "raised"
    /\ \E delivered \in BOOLEAN : faults' = faults \cup SinkFault(delivered)
    /\ sink' = Append(sink, ScanReport("failed"))
    /\ pc' = "exit1"
    /\ UNCHANGED <<fs, pp, ex, tools, i, command, results, events, report, writes, ret,
                   polls>>

NextMain ==
    \/ ReportScanRunning
    \/ Next
    \/ ReportScanComplete
    \/ Publish
    \/ ReportScanFailed

SpecMain == InitMain /\ [][NextMain]_vars

\* the positions of the sink's calls with a scan-level status
ScanStatusAt(status) == {n \in 1..Len(sink) : sink[n] = ScanReport(status)}

\* the positions of the terminal scan-level statuses
TerminalScanStatuses == ScanStatusAt("vuln_complete") \cup ScanStatusAt("failed")

\* the completion event was published
Published == Happened("published", 0)

\* main has exited
Exited == pc \in {"exit0", "exit1"}

\* C29: in a run of main that reaches the scan logic, 'vuln_running' is the
\* first call to the sink, before any tool status; the run reports at most
\* one terminal scan status, and exactly one once it has exited; the
\* completion event is published only after 'vuln_complete' and never in a
\* run that reports 'failed'.
C29_OneTerminalScanStatus ==
    /\ Len(sink) > 0 => sink[1] = ScanReport("vuln_running")
    /\ Cardinality(ScanStatusAt("vuln_running")) <= 1
    /\ Cardinality(TerminalScanStatuses) <= 1
    /\ Exited => Cardinality(TerminalScanStatuses) = 1
    /\ Published => ScanStatusAt("vuln_complete") # {} /\ ScanStatusAt("failed") = {}

====
